---- MODULE Spec2Model ----
(***************************************************************************)
(* KPI PyT: lector de Excel (leer_excel.py) y exportador CSV               *)
(* (dashboard_csv.py).                                                     *)
(*                                                                         *)
(* Strings are sequences of one-character strings, so that str.strip(),    *)
(* str.startswith(), float(str) and the ordering used by sorted() are      *)
(* computed and not assumed.  Numbers are fixed-point integers counting    *)
(* ten-thousandths (Unidad = 1.0), so 0.873 is 8730 and 87.3 is 873000.    *)
(***************************************************************************)
EXTENDS Integers, Sequences, FiniteSets, TLC

\* ------------------------------------------------------------------ bounds
MaxHojas == 2
MaxArgs == 2
MaxCambios == 2
MaxDias == 2

\* ----------------------------------------------------------------- strings
Unidad == 10000

Blancos == {" "}

Digitos == {"0", "1", "2", "3", "5", "6", "9"}

\* code point of the characters the model uses (ord)
Ord(c) ==
  CASE c = " " -> 32
    [] c = "-" -> 45
    [] c = "0" -> 48
    [] c = "1" -> 49
    [] c = "2" -> 50
    [] c = "3" -> 51
    [] c = "5" -> 53
    [] c = "6" -> 54
    [] c = "9" -> 57
    [] c = "A" -> 65
    [] c = "D" -> 68
    [] c = "F" -> 70
    [] c = "L" -> 76
    [] c = "O" -> 79
    [] c = "P" -> 80
    [] c = "T" -> 84
    [] c = "a" -> 97
    [] c = "i" -> 105
    [] c = "k" -> 107
    [] c = "o" -> 111
    [] c = "p" -> 112
    [] c = "s" -> 115
    [] c = "t" -> 116
    [] c = "u" -> 117
    [] OTHER -> 120

RECURSIVE LStrip(_)
LStrip(s) ==
  IF s = <<>> THEN <<>>
  ELSE IF Head(s) \in Blancos THEN LStrip(Tail(s)) ELSE s

RECURSIVE RStrip(_)
RStrip(s) ==
  IF s = <<>> THEN <<>>
  ELSE IF s[Len(s)] \in Blancos THEN RStrip(SubSeq(s, 1, Len(s) - 1)) ELSE s

\* str.strip()
Strip(s) == RStrip(LStrip(s))

\* str.startswith(p)
StartsWith(s, p) == Len(s) >= Len(p) /\ SubSeq(s, 1, Len(p)) = p

\* s < t for Python strings: lexicographic by code point
RECURSIVE StrMenor(_, _)
StrMenor(s, t) ==
  IF t = <<>> THEN FALSE
  ELSE IF s = <<>> THEN TRUE
  ELSE IF Ord(Head(s)) # Ord(Head(t)) THEN Ord(Head(s)) < Ord(Head(t))
  ELSE StrMenor(Tail(s), Tail(t))

\* sorted(keys)
RECURSIVE Sorted(_)
Sorted(S) ==
  IF S = {} THEN <<>>
  ELSE LET m == CHOOSE x \in S : \A y \in S \ {x} : StrMenor(x, y)
       IN <<m>> \o Sorted(S \ {m})

\* ------------------------------------------------------------- cell values
\* What openpyxl hands back for a cell: None, a number a float can hold, an
\* integer beyond the range of float, or text.
None == [t |-> "none"]

Num(n) == [t |-> "num", v |-> n]

Enorme == [t |-> "enorme"]

Txt(s) == [t |-> "str", s |-> s]

\* the exception marker: what a call yields when it raises OverflowError
OverflowError == [t |-> "OverflowError"]

DigitoVal(c) == Ord(c) - 48

RECURSIVE ValorDigitos(_)
ValorDigitos(s) ==
  IF s = <<>> THEN 0 ELSE 10 * ValorDigitos(SubSeq(s, 1, Len(s) - 1)) + DigitoVal(s[Len(s)])

\* float(text): surrounding blanks are ignored, a run of digits is a number,
\* anything else is a ValueError (the model's texts hold digits, letters,
\* blanks and "-" only)
EsNumerico(s) == Strip(s) # <<>> /\ \A k \in 1..Len(Strip(s)) : Strip(s)[k] \in Digitos

FloatDeTexto(s) == Unidad * ValorDigitos(Strip(s))

\* --------------------------------------------------------- leer_excel.py
HOJAS_EXCLUIDAS == {<<"D", "a", "t", "o", "s">>, <<"P", "a", "t", "i", "o", "s">>}

SECCIONES_FASES ==
  << [fase |-> "F12", fila_inicio |-> 6, fila_total |-> 9],
     [fase |-> "F10", fila_inicio |-> 11, fila_total |-> 15],
     [fase |-> "F09", fila_inicio |-> 17, fila_total |-> 25],
     [fase |-> "F11", fila_inicio |-> 27, fila_total |-> 31] >>

FILA_TOTAL_METROS == 34

FILAS_METROS_ROC == [fase_9 |-> 38, fase_10 |-> 39, fase_11 |-> 40, fase_12 |-> 41]

FILA_PLAN_DIARIO_ROC == 42

TOTAL == <<"T", "O", "T", "A", "L">>

\* sheet[f"{col}{fila}"].value: a sheet is a function on the cells that hold
\* something; every other cell reads as None
Celda(sheet, col, fila) ==
  IF <<col, fila>> \in DOMAIN sheet THEN sheet[<<col, fila>>] ELSE None

\* float(value) raises an exception that _safe_float does not catch
\* (OverflowError is neither a ValueError nor a TypeError)
Lanza(value) == value.t = "enorme"

_safe_float(value) ==
  IF value = None THEN 0
  ELSE IF value.t = "num" THEN value.v
  ELSE IF value.t = "enorme" THEN OverflowError
  ELSE IF EsNumerico(value.s) THEN FloatDeTexto(value.s)
  ELSE 0

\* the model's name and state cells hold None or text
_safe_str(value) ==
  IF value = None THEN <<>> ELSE Strip(value.s)

ColsNumericas == {"D", "E", "F", "G", "H", "I", "K"}

\* some _safe_float call of a row raises
FilaLanza(sheet, fila) == \E c \in ColsNumericas : Lanza(Celda(sheet, c, fila))

\* _leer_equipo without the "TOTAL" test
_leer_equipo_SinTotal(sheet, fila) ==
  LET nombre == _safe_str(Celda(sheet, "C", fila))
  IN IF nombre = <<>> THEN None
     ELSE IF FilaLanza(sheet, fila) THEN OverflowError
     ELSE [equipo |-> nombre,
           turno_a |-> _safe_float(Celda(sheet, "D", fila)),
           turno_b |-> _safe_float(Celda(sheet, "E", fila)),
           total |-> _safe_float(Celda(sheet, "F", fila)),
           plan |-> _safe_float(Celda(sheet, "G", fila)),
           cumplimiento_ta |-> _safe_float(Celda(sheet, "H", fila)),
           cumplimiento_tb |-> _safe_float(Celda(sheet, "I", fila)),
           cumplimiento_diario |-> _safe_float(Celda(sheet, "K", fila)),
           estado_ta |-> _safe_str(Celda(sheet, "M", fila)),
           estado_tb |-> _safe_str(Celda(sheet, "N", fila))]

_leer_equipo(sheet, fila) ==
  LET nombre == _safe_str(Celda(sheet, "C", fila))
  IN IF nombre = <<>> \/ nombre = TOTAL THEN None
     ELSE IF FilaLanza(sheet, fila) THEN OverflowError
     ELSE [equipo |-> nombre,
           turno_a |-> _safe_float(Celda(sheet, "D", fila)),
           turno_b |-> _safe_float(Celda(sheet, "E", fila)),
           total |-> _safe_float(Celda(sheet, "F", fila)),
           plan |-> _safe_float(Celda(sheet, "G", fila)),
           cumplimiento_ta |-> _safe_float(Celda(sheet, "H", fila)),
           cumplimiento_tb |-> _safe_float(Celda(sheet, "I", fila)),
           cumplimiento_diario |-> _safe_float(Celda(sheet, "K", fila)),
           estado_ta |-> _safe_str(Celda(sheet, "M", fila)),
           estado_tb |-> _safe_str(Celda(sheet, "N", fila))]

\* the loop of _leer_fase over range(fila, fila_total): the equipos appended
\* when no row raises
RECURSIVE LeerEquipos(_, _, _)
LeerEquipos(sheet, fila, fila_total) ==
  IF fila >= fila_total THEN <<>>
  ELSE LET equipo == _leer_equipo(sheet, fila)
       IN (IF equipo # None THEN <<equipo>> ELSE <<>>)
          \o LeerEquipos(sheet, fila + 1, fila_total)

\* some call of _leer_equipo in that loop raises
EquiposLanza(sheet, fila_inicio, fila_total) ==
  \E fila \in fila_inicio..(fila_total - 1) : _leer_equipo(sheet, fila) = OverflowError

_leer_fase(sheet, fase_label, fila_inicio, fila_total) ==
  IF EquiposLanza(sheet, fila_inicio, fila_total) \/ FilaLanza(sheet, fila_total)
  THEN OverflowError
  ELSE [fase |-> fase_label,
           equipos |-> LeerEquipos(sheet, fila_inicio, fila_total),
           total_turno_a |-> _safe_float(Celda(sheet, "D", fila_total)),
           total_turno_b |-> _safe_float(Celda(sheet, "E", fila_total)),
           total |-> _safe_float(Celda(sheet, "F", fila_total)),
           plan |-> _safe_float(Celda(sheet, "G", fila_total)),
           cumplimiento_ta |-> _safe_float(Celda(sheet, "H", fila_total)),
           cumplimiento_tb |-> _safe_float(Celda(sheet, "I", fila_total)),
           cumplimiento_diario |-> _safe_float(Celda(sheet, "K", fila_total))]

CeldasRoc ==
  { <<"F", FILAS_METROS_ROC.fase_9>>, <<"F", FILAS_METROS_ROC.fase_10>>,
    <<"F", FILAS_METROS_ROC.fase_11>>, <<"F", FILAS_METROS_ROC.fase_12>>,
    <<"C", FILA_PLAN_DIARIO_ROC>>, <<"D", FILA_PLAN_DIARIO_ROC>>,
    <<"E", FILA_PLAN_DIARIO_ROC>>, <<"F", FILA_PLAN_DIARIO_ROC>> }

_leer_metros_roc(sheet) ==
  IF \E c \in CeldasRoc : Lanza(Celda(sheet, c[1], c[2])) THEN OverflowError
  ELSE [fase_9 |-> _safe_float(Celda(sheet, "F", FILAS_METROS_ROC.fase_9)),
        fase_10 |-> _safe_float(Celda(sheet, "F", FILAS_METROS_ROC.fase_10)),
        fase_11 |-> _safe_float(Celda(sheet, "F", FILAS_METROS_ROC.fase_11)),
        fase_12 |-> _safe_float(Celda(sheet, "F", FILAS_METROS_ROC.fase_12)),
        plan_diario |-> _safe_float(Celda(sheet, "C", FILA_PLAN_DIARIO_ROC)),
        turno_a |-> _safe_float(Celda(sheet, "D", FILA_PLAN_DIARIO_ROC)),
        turno_b |-> _safe_float(Celda(sheet, "E", FILA_PLAN_DIARIO_ROC)),
        total |-> _safe_float(Celda(sheet, "F", FILA_PLAN_DIARIO_ROC))]

\* A workbook is a sequence of [nombre, hoja]; wb[nombre_hoja] is the sheet of
\* that exact title.
HojaDe(wb, nombre_hoja) ==
  wb[CHOOSE k \in 1..Len(wb) : wb[k].nombre = nombre_hoja].hoja

sheetnames(wb) == [k \in 1..Len(wb) |-> wb[k].nombre]

\* the for loop of leer_dia over SECCIONES_FASES
FasesDe(sheet) ==
  [f \in {SECCIONES_FASES[k].fase : k \in 1..Len(SECCIONES_FASES)} |->
     LET sec == SECCIONES_FASES[CHOOSE k \in 1..Len(SECCIONES_FASES) :
                                  SECCIONES_FASES[k].fase = f]
     IN _leer_fase(sheet, sec.fase, sec.fila_inicio, sec.fila_total)]

leer_dia(wb, nombre_hoja) ==
  LET sheet == HojaDe(wb, nombre_hoja)
      fases == FasesDe(sheet)
      roc == _leer_metros_roc(sheet)
  IN IF \/ \E f \in DOMAIN fases : fases[f] = OverflowError
        \/ FilaLanza(sheet, FILA_TOTAL_METROS)
        \/ roc = OverflowError
     THEN OverflowError
     ELSE [fecha |-> Strip(nombre_hoja),
           fases |-> fases,
           total_turno_a |-> _safe_float(Celda(sheet, "D", FILA_TOTAL_METROS)),
           total_turno_b |-> _safe_float(Celda(sheet, "E", FILA_TOTAL_METROS)),
           total_metros |-> _safe_float(Celda(sheet, "F", FILA_TOTAL_METROS)),
           plan_total |-> _safe_float(Celda(sheet, "G", FILA_TOTAL_METROS)),
           cumplimiento_ta |-> _safe_float(Celda(sheet, "H", FILA_TOTAL_METROS)),
           cumplimiento_tb |-> _safe_float(Celda(sheet, "I", FILA_TOTAL_METROS)),
           cumplimiento_diario |-> _safe_float(Celda(sheet, "K", FILA_TOTAL_METROS)),
           metros_roc |-> roc]

\* ------------------------------------------------------- dashboard_csv.py
\* round(x * 100, 1) on fixed-point numbers: to the nearest multiple of
\* Unidad / 10, ties to the even multiple (a binary float may fall on either
\* side of a decimal tie; the sheets of the model hold no tie)
Round1(v) ==
  LET q == Unidad \div 10
      lo == (v \div q) * q
      r == v - lo
  IN IF 2 * r < q THEN lo
     ELSE IF 2 * r > q THEN lo + q
     ELSE IF (lo \div q) % 2 = 0 THEN lo ELSE lo + q

\* the fraction rounded but not rescaled
Porcentaje_SinEscala(c) == IF c # 0 THEN Round1(c) ELSE 0

\* round(c * 100, 1) if c else 0.0
Porcentaje(c) == IF c # 0 THEN Round1(c * 100) ELSE 0

TOTAL_FASE == <<"T", "O", "T", "A", "L", "_", "F", "A", "S", "E">>

TOTAL_DIA == <<"T", "O", "T", "A", "L", "_", "D", "I", "A">>

\* the phases in alphabetical order
OrdenFases_Alfabetico == <<"F09", "F10", "F11", "F12">>

OrdenFases == <<"F12", "F10", "F09", "F11">>

FilaEquipo(dia, fase_label, eq) ==
  [Fecha |-> dia.fecha, Fase |-> fase_label, Equipo |-> eq.equipo,
   Turno_A |-> eq.turno_a, Turno_B |-> eq.turno_b, Total |-> eq.total,
   Plan |-> eq.plan,
   Cumplimiento_TA |-> Porcentaje(eq.cumplimiento_ta),
   Cumplimiento_TB |-> Porcentaje(eq.cumplimiento_tb),
   Cumplimiento_Diario |-> Porcentaje(eq.cumplimiento_diario),
   Estado_TA |-> eq.estado_ta, Estado_TB |-> eq.estado_tb, Tipo |-> "Equipo"]

RECURSIVE SumaTotales(_)
SumaTotales(equipos) ==
  IF equipos = <<>> THEN 0 ELSE Head(equipos).total + SumaTotales(Tail(equipos))

\* the phase total recomputed from the equipos
FilaTotalFase_Recalculada(dia, fase_label, fase) ==
  [Fecha |-> dia.fecha, Fase |-> fase_label, Equipo |-> TOTAL_FASE,
   Turno_A |-> fase.total_turno_a, Turno_B |-> fase.total_turno_b,
   Total |-> SumaTotales(fase.equipos), Plan |-> fase.plan,
   Cumplimiento_TA |-> Porcentaje(fase.cumplimiento_ta),
   Cumplimiento_TB |-> Porcentaje(fase.cumplimiento_tb),
   Cumplimiento_Diario |-> Porcentaje(fase.cumplimiento_diario),
   Estado_TA |-> <<>>, Estado_TB |-> <<>>, Tipo |-> "Total_Fase"]

FilaTotalFase(dia, fase_label, fase) ==
  [Fecha |-> dia.fecha, Fase |-> fase_label, Equipo |-> TOTAL_FASE,
   Turno_A |-> fase.total_turno_a, Turno_B |-> fase.total_turno_b,
   Total |-> fase.total, Plan |-> fase.plan,
   Cumplimiento_TA |-> Porcentaje(fase.cumplimiento_ta),
   Cumplimiento_TB |-> Porcentaje(fase.cumplimiento_tb),
   Cumplimiento_Diario |-> Porcentaje(fase.cumplimiento_diario),
   Estado_TA |-> <<>>, Estado_TB |-> <<>>, Tipo |-> "Total_Fase"]

FilaTotalDia(dia) ==
  [Fecha |-> dia.fecha, Fase |-> "TODAS", Equipo |-> TOTAL_DIA,
   Turno_A |-> dia.total_turno_a, Turno_B |-> dia.total_turno_b,
   Total |-> dia.total_metros, Plan |-> dia.plan_total,
   Cumplimiento_TA |-> Porcentaje(dia.cumplimiento_ta),
   Cumplimiento_TB |-> Porcentaje(dia.cumplimiento_tb),
   Cumplimiento_Diario |-> Porcentaje(dia.cumplimiento_diario),
   Estado_TA |-> <<>>, Estado_TB |-> <<>>, Tipo |-> "Total_Dia"]

\* the body of the loop of dia_a_filas for one fase_label
FilasDeFase(dia, fase_label) ==
  IF fase_label \notin DOMAIN dia.fases THEN <<>>
  ELSE LET fase == dia.fases[fase_label]
       IN [k \in 1..Len(fase.equipos) |-> FilaEquipo(dia, fase_label, fase.equipos[k])]
          \o <<FilaTotalFase(dia, fase_label, fase)>>

RECURSIVE FilasDeFases(_, _)
FilasDeFases(dia, labels) ==
  IF labels = <<>> THEN <<>>
  ELSE FilasDeFase(dia, Head(labels)) \o FilasDeFases(dia, Tail(labels))

dia_a_filas(dia) == FilasDeFases(dia, OrdenFases) \o <<FilaTotalDia(dia)>>

dia_a_filas_roc(dia) ==
  LET roc == dia.metros_roc
  IN << [Fecha |-> dia.fecha, Fase |-> "F09", Metros_ROC |-> roc.fase_9],
        [Fecha |-> dia.fecha, Fase |-> "F10", Metros_ROC |-> roc.fase_10],
        [Fecha |-> dia.fecha, Fase |-> "F11", Metros_ROC |-> roc.fase_11],
        [Fecha |-> dia.fecha, Fase |-> "F12", Metros_ROC |-> roc.fase_12],
        [Fecha |-> dia.fecha, Fase |-> "TOTAL_ROC", Metros_ROC |-> roc.total,
         Turno_A_ROC |-> roc.turno_a, Turno_B_ROC |-> roc.turno_b,
         Plan_Diario_ROC |-> roc.plan_diario] >>

\* one row of exportar_resumen_diario_csv
FilaResumen(dia) ==
  LET tot(f) == IF f \in DOMAIN dia.fases THEN dia.fases[f].total ELSE 0
      pln(f) == IF f \in DOMAIN dia.fases THEN dia.fases[f].plan ELSE 0
      cmp(f) == IF f \in DOMAIN dia.fases
                THEN Porcentaje(dia.fases[f].cumplimiento_diario) ELSE 0
  IN [Fecha |-> dia.fecha,
      Total_Turno_A |-> dia.total_turno_a, Total_Turno_B |-> dia.total_turno_b,
      Total_Metros |-> dia.total_metros, Plan_Total |-> dia.plan_total,
      Cumplimiento_Diario_pct |-> Porcentaje(dia.cumplimiento_diario),
      ROC_Total |-> dia.metros_roc.total, ROC_Plan |-> dia.metros_roc.plan_diario,
      F09_Total |-> tot("F09"), F09_Plan |-> pln("F09"), F09_Cump_pct |-> cmp("F09"),
      F10_Total |-> tot("F10"), F10_Plan |-> pln("F10"), F10_Cump_pct |-> cmp("F10"),
      F11_Total |-> tot("F11"), F11_Plan |-> pln("F11"), F11_Cump_pct |-> cmp("F11"),
      F12_Total |-> tot("F12"), F12_Plan |-> pln("F12"), F12_Cump_pct |-> cmp("F12")]

\* for fecha in sorted(d.keys()): todas_filas.extend(f(d[fecha]))
RECURSIVE Extender(_, _, _)
Extender(d, claves, tipo) ==
  IF claves = <<>> THEN <<>>
  ELSE (CASE tipo = "metros" -> dia_a_filas(d[Head(claves)])
          [] tipo = "roc" -> dia_a_filas_roc(d[Head(claves)])
          [] OTHER -> <<FilaResumen(d[Head(claves)])>>)
       \o Extender(d, Tail(claves), tipo)

TodasFilas(d, tipo) == Extender(d, Sorted(DOMAIN d), tipo)

CSV == <<".", "c", "s", "v">>

\* an export that writes its file also when there are no rows
Exportar_SinGuarda(d, output, tipo, archivosEnDisco) ==
  LET archivo == output \o CSV
      todas_filas == TodasFilas(d, tipo)
  IN [retorno |-> Txt(archivo),
      disco |-> [a \in DOMAIN archivosEnDisco \cup {archivo} |->
                   IF a = archivo THEN todas_filas ELSE archivosEnDisco[a]]]

\* What one export function does to the files on disk and what it returns:
\* nothing written and None when there are no rows.
Exportar(d, output, tipo, archivosEnDisco) ==
  LET archivo == output \o CSV
      todas_filas == TodasFilas(d, tipo)
  IN IF todas_filas = <<>>
     THEN [retorno |-> None, disco |-> archivosEnDisco]
     ELSE [retorno |-> Txt(archivo),
           disco |-> [a \in DOMAIN archivosEnDisco \cup {archivo} |->
                        IF a = archivo THEN todas_filas ELSE archivosEnDisco[a]]]

exportar_metros_csv(d, output, archivosEnDisco) == Exportar(d, output, "metros", archivosEnDisco)

exportar_roc_csv(d, output, archivosEnDisco) == Exportar(d, output, "roc", archivosEnDisco)

exportar_resumen_diario_csv(d, output, archivosEnDisco) ==
  Exportar(d, output, "resumen", archivosEnDisco)

\* --------------------------------------------------------------- the state
VARIABLES
  libro,        \* the workbook at EXCEL_PATH: a sequence of [nombre, hoja]
  argv,         \* sys.argv[1:]
  pc,           \* where the command is
  output_base,  \* main: output_base
  fechas,       \* main: fechas
  i,            \* index of the running loop (over fechas or over hojas_fecha)
  abiertos,     \* workbook handles opened by load_workbook and not closed
  nombre_hoja,  \* obtener_dia: nombre_hoja
  hojas_fecha,  \* cargar_excel: hojas_fecha
  local_dias,   \* cargar_excel: dias
  data,         \* main: data, what cargar_excel returned
  dia,          \* main: dia, what obtener_dia returned
  dias,         \* main: dias
  avisos,       \* the tokens of the AVISO lines printed
  llamadas,     \* the export functions called, in order
  archivos,     \* main: archivos
  disco,        \* the CSV files written: file name -> rows
  salida        \* exit status of the process (-1 while it runs)

vars ==
  << libro, argv, pc, output_base, fechas, i, abiertos, nombre_hoja, hojas_fecha,
     local_dias, data, dia, dias, avisos, llamadas, archivos, disco, salida >>

\* ------------------------------------------------------------------ inputs
N_15_01 == <<"1", "5", "-", "0", "1">>

N_15_01_b == <<"1", "5", "-", "0", "1", " ">>

N_b_15_01 == <<" ", "1", "5", "-", "0", "1">>

N_16_01 == <<"1", "6", "-", "0", "1">>

N_99_99 == <<"9", "9", "-", "9", "9">>

N_Datos == <<"D", "a", "t", "o", "s">>

N_Datos_b == <<"D", "a", "t", "o", "s", " ">>

OPT_OUTPUT == <<"-", "-", "o", "u", "t", "p", "u", "t">>

KPI == <<"k", "p", "i">>

\* a sheet from the cells it holds, given as <<<<col, fila>>, value>> pairs
Hoja(celdas) ==
  [c \in {p[1] : p \in celdas} |-> (CHOOSE p \in celdas : p[1] = c)[2]]

Cambiar(sheet, cambios) ==
  [c \in DOMAIN sheet \cup DOMAIN cambios |->
     IF c \in DOMAIN cambios THEN cambios[c] ELSE sheet[c]]

HojaVacia == Hoja({})

\* F09 with two equipos (totals 10.0 and 15.0, plan 12.0 each) and a totals
\* row of 25.0 / 24.0; the day total row says 30.0
HojaF09 ==
  Hoja({ <<<<"C", 6>>, Txt(<<"P", "F", "2", "1">>)>>, <<<<"F", 6>>, Txt(<<" ", "1", "2", " ">>)>>,
         <<<<"C", 9>>, Txt(TOTAL)>>, <<<<"F", 9>>, Num(12 * Unidad)>>,
         <<<<"C", 15>>, Txt(TOTAL)>>,
         <<<<"C", 17>>, Txt(<<"P", "F", "0", "3">>)>>, <<<<"D", 17>>, Num(4 * Unidad)>>,
         <<<<"E", 17>>, Num(6 * Unidad)>>, <<<<"F", 17>>, Num(10 * Unidad)>>,
         <<<<"G", 17>>, Num(12 * Unidad)>>, <<<<"H", 17>>, Num(8730)>>,
         <<<<"K", 17>>, Num(8333)>>, <<<<"M", 17>>, Txt(<<" ", "O", "K", " ">>)>>,
         <<<<"C", 18>>, Txt(<<"P", "F", "2", "6", " ">>)>>, <<<<"F", 18>>, Num(15 * Unidad)>>,
         <<<<"G", 18>>, Num(12 * Unidad)>>, <<<<"K", 18>>, Num(12500)>>,
         <<<<"C", 25>>, Txt(TOTAL)>>, <<<<"F", 25>>, Num(25 * Unidad)>>,
         <<<<"G", 25>>, Num(24 * Unidad)>>, <<<<"K", 25>>, Num(10417)>>,
         <<<<"C", 31>>, Txt(TOTAL)>>,
         <<<<"F", 34>>, Num(30 * Unidad)>>, <<<<"G", 34>>, Num(36 * Unidad)>>,
         <<<<"K", 34>>, Num(8333)>>,
         <<<<"F", 38>>, Num(5 * Unidad)>>, <<<<"F", 42>>, Num(5 * Unidad)>>,
         <<<<"C", 42>>, Num(9 * Unidad)>> })

\* a sheet whose day total is an integer no float can hold
HojaEnorme == Cambiar(HojaF09, Hoja({ <<<<"F", 34>>, Enorme>> }))

Plantillas == {HojaVacia, HojaF09, HojaEnorme}

NombresHoja == {N_15_01, N_15_01_b, N_16_01, N_Datos_b}

ArgsPosibles == {N_15_01, N_b_15_01, N_99_99, N_Datos, OPT_OUTPUT}

SeqsHasta(S, n) == UNION {[1..k -> S] : k \in 0..n}

\* workbooks: sheet titles are pairwise different
Libros ==
  { w \in SeqsHasta([nombre : NombresHoja, hoja : Plantillas], MaxHojas) :
      \A a, b \in 1..Len(w) : a # b => w[a].nombre # w[b].nombre }

\* -------------------------------------------------------------------- main
\* args.index("--output")
IndiceDe(args, x) == CHOOSE k \in 1..Len(args) : args[k] = x /\ \A j \in 1..(k - 1) : args[j] # x

EstaEn(args, x) == \E k \in 1..Len(args) : args[k] = x

\* the --output parse of main: [output_base, args]
ParsearOutput(args) ==
  IF EstaEn(args, OPT_OUTPUT)
  THEN LET idx == IndiceDe(args, OPT_OUTPUT)
       IN IF idx + 1 <= Len(args)
          THEN [output_base |-> args[idx + 1],
                args |-> SubSeq(args, 1, idx - 1) \o SubSeq(args, idx + 2, Len(args))]
          ELSE [output_base |-> KPI, args |-> SubSeq(args, 1, idx - 1)]
  ELSE [output_base |-> KPI, args |-> args]

NoEsOpcion(a) == ~StartsWith(a, <<"-", "-">>)

\* d[k] = v on a dict
Poner(d, k, v) == [x \in DOMAIN d \cup {k} |-> IF x = k THEN v ELSE d[x]]

DictVacio == <<>>

Inicio ==
  /\ pc = "inicio"
  /\ LET p == ParsearOutput(argv)
         fs == SelectSeq(p.args, NoEsOpcion)
     IN /\ output_base' = p.output_base
        /\ fechas' = fs
        /\ pc' = IF fs # <<>> THEN "fechas" ELSE "cargar"
  /\ i' = 1
  /\ UNCHANGED << libro, argv, abiertos, nombre_hoja, hojas_fecha, local_dias, data,
                  dia, dias, avisos, llamadas, archivos, disco, salida >>

\* obtener_dia, the search: the first sheet whose trimmed title is the
\* trimmed fecha, or None
BuscarHoja(wb, fecha) ==
  LET nombres == sheetnames(wb)
      hits == {k \in 1..Len(nombres) : Strip(nombres[k]) = Strip(fecha)}
  IN IF hits = {} THEN None
     ELSE Txt(nombres[CHOOSE k \in hits : \A j \in hits : k <= j])

\* obtener_dia(fecha): load_workbook and the search
ObtenerAbrir ==
  /\ pc = "fechas"
  /\ i <= Len(fechas)
  /\ abiertos' = abiertos + 1
  /\ nombre_hoja' = BuscarHoja(libro, fechas[i])
  /\ pc' = "obtener"
  /\ UNCHANGED << libro, argv, output_base, fechas, i, hojas_fecha, local_dias, data,
                  dia, dias, avisos, llamadas, archivos, disco, salida >>

SiguienteFecha == IF i + 1 > Len(fechas) THEN "verificar" ELSE "fechas"

\* obtener_dia returns None; main prints the AVISO and goes on
ObtenerNoEncontrada ==
  /\ pc = "obtener"
  /\ nombre_hoja = None
  /\ abiertos' = abiertos - 1
  /\ dia' = None
  /\ avisos' = Append(avisos, fechas[i])
  /\ i' = i + 1
  /\ pc' = SiguienteFecha
  /\ UNCHANGED << libro, argv, output_base, fechas, nombre_hoja, hojas_fecha,
                  local_dias, data, dias, llamadas, archivos, disco, salida >>

\* obtener_dia reads the sheet, closes and returns; main stores the day
ObtenerLeer ==
  /\ pc = "obtener"
  /\ nombre_hoja # None
  /\ leer_dia(libro, nombre_hoja.s) # OverflowError
  /\ abiertos' = abiertos - 1
  /\ dia' = leer_dia(libro, nombre_hoja.s)
  /\ dias' = Poner(dias, fechas[i], leer_dia(libro, nombre_hoja.s))
  /\ i' = i + 1
  /\ pc' = SiguienteFecha
  /\ UNCHANGED << libro, argv, output_base, fechas, nombre_hoja, hojas_fecha,
                  local_dias, data, avisos, llamadas, archivos, disco, salida >>

\* leer_dia raises inside obtener_dia: nothing catches it, wb.close() is not
\* reached and the process ends with a traceback
ObtenerFalla ==
  /\ pc = "obtener"
  /\ nombre_hoja # None
  /\ leer_dia(libro, nombre_hoja.s) = OverflowError
  /\ pc' = "excepcion"
  /\ salida' = 1
  /\ UNCHANGED << libro, argv, output_base, fechas, i, abiertos, nombre_hoja,
                  hojas_fecha, local_dias, data, dia, dias, avisos, llamadas,
                  archivos, disco >>

NoExcluida(nombre) == Strip(nombre) \notin HOJAS_EXCLUIDAS

\* cargar_excel: load_workbook and the list of date sheets
CargarAbrir ==
  /\ pc = "cargar"
  /\ abiertos' = abiertos + 1
  /\ hojas_fecha' = SelectSeq(sheetnames(libro), NoExcluida)
  /\ local_dias' = DictVacio
  /\ i' = 1
  /\ pc' = "cargar_bucle"
  /\ UNCHANGED << libro, argv, output_base, fechas, nombre_hoja, data, dia, dias,
                  avisos, llamadas, archivos, disco, salida >>

\* cargar_excel: one turn of the loop over hojas_fecha
CargarHoja ==
  /\ pc = "cargar_bucle"
  /\ i <= Len(hojas_fecha)
  /\ leer_dia(libro, hojas_fecha[i]) # OverflowError
  /\ local_dias' = Poner(local_dias, Strip(hojas_fecha[i]), leer_dia(libro, hojas_fecha[i]))
  /\ i' = i + 1
  /\ UNCHANGED << libro, argv, pc, output_base, fechas, abiertos, nombre_hoja,
                  hojas_fecha, data, dia, dias, avisos, llamadas, archivos, disco,
                  salida >>

\* leer_dia raises inside cargar_excel
CargarFalla ==
  /\ pc = "cargar_bucle"
  /\ i <= Len(hojas_fecha)
  /\ leer_dia(libro, hojas_fecha[i]) = OverflowError
  /\ pc' = "excepcion"
  /\ salida' = 1
  /\ UNCHANGED << libro, argv, output_base, fechas, i, abiertos, nombre_hoja,
                  hojas_fecha, local_dias, data, dia, dias, avisos, llamadas,
                  archivos, disco >>

\* cargar_excel: wb.close() and the returned dict; main takes data["dias"]
CargarCerrar ==
  /\ pc = "cargar_bucle"
  /\ i > Len(hojas_fecha)
  /\ abiertos' = abiertos - 1
  /\ data' = [dias |-> local_dias,
              hojas_fecha |-> [k \in 1..Len(hojas_fecha) |-> Strip(hojas_fecha[k])],
              total_hojas |-> Len(hojas_fecha)]
  /\ dias' = local_dias
  /\ pc' = "verificar"
  /\ UNCHANGED << libro, argv, output_base, fechas, i, nombre_hoja, hojas_fecha,
                  local_dias, dia, avisos, llamadas, archivos, disco, salida >>

\* if not dias: sys.exit(1)
Verificar ==
  /\ pc = "verificar"
  /\ IF DOMAIN dias = {}
     THEN pc' = "fin" /\ salida' = 1
     ELSE pc' = "exportar_metros" /\ salida' = salida
  /\ UNCHANGED << libro, argv, output_base, fechas, i, abiertos, nombre_hoja,
                  hojas_fecha, local_dias, data, dia, dias, avisos, llamadas,
                  archivos, disco >>

Agregar(lista, a) == IF a # None THEN Append(lista, a.s) ELSE lista

ExportarMetros ==
  /\ pc = "exportar_metros"
  /\ LET r == exportar_metros_csv(dias, output_base \o <<"_", "m", "e", "t", "r", "o", "s">>, disco)
     IN /\ disco' = r.disco
        /\ archivos' = Agregar(archivos, r.retorno)
  /\ llamadas' = Append(llamadas, "exportar_metros_csv")
  /\ pc' = "exportar_roc"
  /\ UNCHANGED << libro, argv, output_base, fechas, i, abiertos, nombre_hoja,
                  hojas_fecha, local_dias, data, dia, dias, avisos, salida >>

ExportarRoc ==
  /\ pc = "exportar_roc"
  /\ LET r == exportar_roc_csv(dias, output_base \o <<"_", "r", "o", "c">>, disco)
     IN /\ disco' = r.disco
        /\ archivos' = Agregar(archivos, r.retorno)
  /\ llamadas' = Append(llamadas, "exportar_roc_csv")
  /\ pc' = "exportar_resumen"
  /\ UNCHANGED << libro, argv, output_base, fechas, i, abiertos, nombre_hoja,
                  hojas_fecha, local_dias, data, dia, dias, avisos, salida >>

\* the last export, and main returns
ExportarResumen ==
  /\ pc = "exportar_resumen"
  /\ LET r == exportar_resumen_diario_csv(dias, output_base \o <<"_", "r", "e", "s", "u", "m", "e", "n", "_", "d", "i", "a", "r", "i", "o">>, disco)
     IN /\ disco' = r.disco
        /\ archivos' = Agregar(archivos, r.retorno)
  /\ llamadas' = Append(llamadas, "exportar_resumen_diario_csv")
  /\ pc' = "fin"
  /\ salida' = 0
  /\ UNCHANGED << libro, argv, output_base, fechas, i, abiertos, nombre_hoja,
                  hojas_fecha, local_dias, data, dia, dias, avisos >>

Init ==
  /\ libro \in Libros
  /\ argv \in SeqsHasta(ArgsPosibles, MaxArgs)
  /\ pc = "inicio"
  /\ output_base = KPI
  /\ fechas = <<>>
  /\ i = 1
  /\ abiertos = 0
  /\ nombre_hoja = None
  /\ hojas_fecha = <<>>
  /\ local_dias = DictVacio
  /\ data = None
  /\ dia = None
  /\ dias = DictVacio
  /\ avisos = <<>>
  /\ llamadas = <<>>
  /\ archivos = <<>>
  /\ disco = DictVacio
  /\ salida = -1

Next ==
  \/ Inicio
  \/ ObtenerAbrir
  \/ ObtenerNoEncontrada
  \/ ObtenerLeer
  \/ ObtenerFalla
  \/ CargarAbrir
  \/ CargarHoja
  \/ CargarFalla
  \/ CargarCerrar
  \/ Verificar
  \/ ExportarMetros
  \/ ExportarRoc
  \/ ExportarResumen

Spec == Init /\ [][Next]_vars

\* ------------------------------------------- one sheet, cell by cell
\* The command run as "dashboard_csv.py ' 15-01'" on a workbook of one
\* sheet titled '15-01 ', whose cells are those of HojaF09 with up to
\* MaxCambios of them replaced.
CeldasNombre == { <<"C", 6>>, <<"C", 17>>, <<"C", 19>>, <<"C", 24>>, <<"C", 25>> }

CeldasValor == { <<"H", 17>>, <<"F", 19>>, <<"F", 25>>, <<"H", 25>>, <<"F", 34>>, <<"H", 34>> }

ValoresNombre == { None, Txt(TOTAL), Txt(<<" ", "T", "O", "T", "A", "L", " ">>), Txt(<<"P", "F", "0", "7">>) }

ValoresNumero == { None, Num(0), Num(8736), Txt(TOTAL), Txt(<<" ", "1", "2", " ">>), Enorme }

CambiosPosibles ==
  UNION { { f \in [C -> ValoresNombre \cup ValoresNumero] :
              \A c \in C : f[c] \in (IF c \in CeldasNombre THEN ValoresNombre
                                     ELSE ValoresNumero) } :
          C \in { X \in SUBSET (CeldasNombre \cup CeldasValor) :
                    Cardinality(X) <= MaxCambios } }

InitHoja ==
  /\ \E cambios \in CambiosPosibles :
       libro = << [nombre |-> N_15_01_b, hoja |-> Cambiar(HojaF09, cambios)] >>
  /\ argv = << N_b_15_01 >>
  /\ pc = "inicio"
  /\ output_base = KPI
  /\ fechas = <<>>
  /\ i = 1
  /\ abiertos = 0
  /\ nombre_hoja = None
  /\ hojas_fecha = <<>>
  /\ local_dias = DictVacio
  /\ data = None
  /\ dia = None
  /\ dias = DictVacio
  /\ avisos = <<>>
  /\ llamadas = <<>>
  /\ archivos = <<>>
  /\ disco = DictVacio
  /\ salida = -1

NextHoja ==
  \/ Inicio
  \/ ObtenerAbrir
  \/ ObtenerLeer
  \/ ObtenerFalla
  \/ Verificar
  \/ ExportarMetros
  \/ ExportarRoc
  \/ ExportarResumen

SpecHoja == InitHoja /\ [][NextHoja]_vars

\* ------------------------------------- the export functions on their own
\* exportar_metros_csv, exportar_roc_csv and exportar_resumen_diario_csv
\* called one after the other, as main calls them, on any day collection of
\* up to MaxDias days, the empty one included.  A day is what leer_dia
\* returns for a sheet; its key is any token or trimmed title.
DiasPosibles ==
  { leer_dia(<< [nombre |-> n, hoja |-> h] >>, n) :
      n \in {N_15_01_b, N_16_01}, h \in {HojaVacia, HojaF09} }

ClavesPosibles == {N_15_01, N_b_15_01, N_16_01, N_Datos}

Colecciones ==
  UNION { [C -> DiasPosibles] :
          C \in { X \in SUBSET ClavesPosibles : Cardinality(X) <= MaxDias } }

InitExportar ==
  /\ dias \in Colecciones
  /\ libro = <<>>
  /\ argv = <<>>
  /\ pc = "exportar_metros"
  /\ output_base = KPI
  /\ fechas = <<>>
  /\ i = 1
  /\ abiertos = 0
  /\ nombre_hoja = None
  /\ hojas_fecha = <<>>
  /\ local_dias = DictVacio
  /\ data = None
  /\ dia = None
  /\ avisos = <<>>
  /\ llamadas = <<>>
  /\ archivos = <<>>
  /\ disco = DictVacio
  /\ salida = -1

NextExportar ==
  \/ ExportarMetros
  \/ ExportarRoc
  \/ ExportarResumen

SpecExportar == InitExportar /\ [][NextExportar]_vars

\* ------------------------------------------------------------- properties
Terminado == salida # -1

\* a token names a sheet of the workbook once both are trimmed
Coincide(fecha) == \E k \in 1..Len(libro) : Strip(libro[k].nombre) = Strip(fecha)

NoCoincide(fecha) == ~Coincide(fecha)

\* C1: a workbook handle opened by cargar_excel or obtener_dia is closed on
\* every exit path of the function, a failure of leer_dia included: outside
\* the two functions no handle is open.
C1_HandleCerradoEnTodaSalida ==
  pc \notin {"obtener", "cargar_bucle"} => abiertos = 0

\* C2: a run with date tokens ends with an entry for exactly the tokens that
\* match a sheet and one warning per token that does not, in token order.
C2_SoloCoincidentesYUnAvisoPorCadaOtro ==
  (Terminado /\ fechas # <<>>) =>
    /\ DOMAIN dias = {fechas[k] : k \in {j \in 1..Len(fechas) : Coincide(fechas[j])}}
    /\ avisos = SelectSeq(fechas, NoCoincide)

TresExportaciones ==
  << "exportar_metros_csv", "exportar_roc_csv", "exportar_resumen_diario_csv" >>

\* C3: the command ends with a non-zero status exactly when the day
\* collection is empty after loading; then nothing is exported, and with at
\* least one day loaded the three exports run and the status is zero.
C3_SalidaNoCeroSiiSinDias ==
  Terminado =>
    /\ (salida # 0) <=> (DOMAIN dias = {})
    /\ (DOMAIN dias = {}) => (llamadas = <<>> /\ DOMAIN disco = {})
    /\ (DOMAIN dias # {}) => (llamadas = TresExportaciones /\ salida = 0)

\* C5: _safe_float gives 0.0 for an empty or unparseable cell and never
\* raises, so reading a sheet that was found never fails: the run never ends
\* in an exception, and the day total read from an empty or unparseable F34
\* is 0.0.
C5_SafeFloatNuncaLanza ==
  /\ pc # "excepcion"
  /\ \A k \in DOMAIN dias :
       LET v == Celda(libro[1].hoja, "F", FILA_TOTAL_METROS)
       IN (v = None \/ (v.t = "str" /\ ~EsNumerico(v.s))) => dias[k].total_metros = 0

NombresNoExcluidos ==
  {libro[k].nombre : k \in {j \in 1..Len(libro) : Strip(libro[j].nombre) \notin HOJAS_EXCLUIDAS}}

\* C6: cargar_excel returns a collection keyed by exactly the trimmed titles
\* of the non-excluded sheets, each key holding the record read from that
\* sheet, and total_hojas is the number of entries.
C6_CargaCompleta ==
  data # None =>
    /\ DOMAIN data.dias = {Strip(n) : n \in NombresNoExcluidos}
    /\ \A n \in NombresNoExcluidos : data.dias[Strip(n)] = leer_dia(libro, n)
    /\ data.total_hojas = Cardinality(DOMAIN data.dias)

\* ---- the layout of the equipment view
ArchivoMetros == output_base \o <<"_", "m", "e", "t", "r", "o", "s", ".", "c", "s", "v">>

HayMetros == ArchivoMetros \in DOMAIN disco

OrdenEsperado == <<"F12", "F10", "F09", "F11">>

NEquipos(d, f) == Len(d.fases[f].equipos)

\* rows of day d that come before the rows of its p-th phase
RECURSIVE Desplazamiento(_, _)
Desplazamiento(d, p) ==
  IF p = 1 THEN 0
  ELSE Desplazamiento(d, p - 1) + NEquipos(d, OrdenEsperado[p - 1]) + 1

LargoDia(d) == Desplazamiento(d, 5) + 1

RECURSIVE SumaLargos(_, _)
SumaLargos(d, claves) ==
  IF claves = {} THEN 0
  ELSE LET k == CHOOSE x \in claves : TRUE
       IN LargoDia(d[k]) + SumaLargos(d, claves \ {k})

\* rows of the view that come before the block of key k
InicioDe(d, k) == SumaLargos(d, {x \in DOMAIN d : StrMenor(x, k)})

BloqueDe(filas, d, k) == SubSeq(filas, InicioDe(d, k) + 1, InicioDe(d, k) + LargoDia(d[k]))

\* block B is: per phase in the fixed order its equipos and one Total_Fase
\* row, then one Total_Dia row
BloqueBien(d, B) ==
  /\ Len(B) = LargoDia(d)
  /\ \A p \in 1..4 :
       LET f == OrdenEsperado[p]
           o == Desplazamiento(d, p)
           n == NEquipos(d, f)
       IN /\ \A j \in 1..n :
               /\ B[o + j].Tipo = "Equipo"
               /\ B[o + j].Fase = f
               /\ B[o + j].Equipo = d.fases[f].equipos[j].equipo
               /\ B[o + j].Fecha = d.fecha
          /\ B[o + n + 1].Tipo = "Total_Fase"
          /\ B[o + n + 1].Fase = f
          /\ B[o + n + 1].Fecha = d.fecha
  /\ B[Len(B)].Tipo = "Total_Dia"
  /\ B[Len(B)].Fecha = d.fecha

\* C7: the equipment view lists the days in ascending key order; in a day
\* the phases come as F12, F10, F09, F11, each with its equipment rows and
\* then exactly one Total_Fase row (n + 1 rows for n equipos, n = 0
\* included), and the day ends with exactly one Total_Dia row.
C7_OrdenDeLaVistaDeEquipos ==
  HayMetros =>
    /\ Len(disco[ArchivoMetros]) = SumaLargos(dias, DOMAIN dias)
    /\ \A k \in DOMAIN dias : BloqueBien(dias[k], BloqueDe(disco[ArchivoMetros], dias, k))

C7_Testigo ==
  /\ HayMetros
  /\ Cardinality(DOMAIN dias) >= 2
  /\ \E k \in DOMAIN dias : NEquipos(dias[k], "F09") = 2 /\ NEquipos(dias[k], "F10") = 0
  /\ \E k \in DOMAIN dias : NEquipos(dias[k], "F09") = 0

\* C9: exporting an empty collection writes no file and returns no name, and
\* the three exports all run on the collection whatever each one produced.
C9_ColeccionVaciaSinArchivos ==
  /\ (DOMAIN dias = {}) => (DOMAIN disco = {} /\ archivos = <<>>)
  /\ pc = "exportar_roc" => llamadas = SubSeq(TresExportaciones, 1, 1)
  /\ pc = "exportar_resumen" => llamadas = SubSeq(TresExportaciones, 1, 2)
  /\ pc = "fin" => llamadas = TresExportaciones
  /\ pc # "excepcion"

C9_Testigo ==
  /\ DOMAIN dias = {}
  /\ pc = "fin"
  /\ llamadas = TresExportaciones
  /\ DOMAIN disco = {}

\* ---- one sheet: the sheet read and the single day it gives
LaHoja == libro[1].hoja

\* trimmed text of the name cell of a row
NombreFila(r) ==
  LET v == Celda(LaHoja, "C", r) IN IF v = None THEN <<>> ELSE Strip(v.s)

EsFilaEquipo(r) == NombreFila(r) # <<>> /\ NombreFila(r) # TOTAL

FilasEquipo(sec) == {r \in sec.fila_inicio..(sec.fila_total - 1) : EsFilaEquipo(r)}

\* the j-th smallest row of R
Enesima(R, j) == CHOOSE r \in R : Cardinality({x \in R : x <= r}) = j

\* C4: in every phase section the equipment list holds exactly the rows
\* between the first equipment row and the totals row (excluded) whose
\* trimmed name is neither empty nor "TOTAL", in ascending row order; no
\* record is named "TOTAL".
C4_FilasDeEquipo ==
  \A k \in DOMAIN dias : \A s \in 1..Len(SECCIONES_FASES) :
    LET sec == SECCIONES_FASES[s]
        eqs == dias[k].fases[sec.fase].equipos
        R == FilasEquipo(sec)
    IN /\ Len(eqs) = Cardinality(R)
       /\ \A j \in 1..Len(eqs) :
            /\ eqs[j] = _leer_equipo(LaHoja, Enesima(R, j))
            /\ eqs[j].equipo = NombreFila(Enesima(R, j))
            /\ eqs[j].equipo # TOTAL

C4_Testigo ==
  /\ pc = "fin"
  /\ DOMAIN dias # {}
  /\ NombreFila(17) = TOTAL
  /\ NombreFila(25) = <<"P", "F", "0", "7">>
  /\ \A k \in DOMAIN dias :
       /\ Len(dias[k].fases["F09"].equipos) = 1
       /\ dias[k].fases["F09"].equipos[1].equipo = <<"P", "F", "2", "6">>

\* what a cell is worth as a number: itself, the number its text spells, or
\* 0.0
ValorLeido(v) ==
  IF v.t = "num" THEN v.v
  ELSE IF v.t = "str" /\ EsNumerico(v.s) THEN FloatDeTexto(v.s)
  ELSE 0

FilaTotalDe(f) ==
  SECCIONES_FASES[CHOOSE s \in 1..Len(SECCIONES_FASES) : SECCIONES_FASES[s].fase = f].fila_total

\* C8: the day total is the value of cell F34 and each phase total the value
\* of column F of the phase's totals row, whatever the equipment rows hold,
\* and the Total_Fase and Total_Dia rows of the equipment view carry them
\* unchanged.
C8_TotalesLeidos ==
  /\ \A k \in DOMAIN dias :
       /\ dias[k].total_metros = ValorLeido(Celda(LaHoja, "F", FILA_TOTAL_METROS))
       /\ \A f \in DOMAIN dias[k].fases :
            dias[k].fases[f].total = ValorLeido(Celda(LaHoja, "F", FilaTotalDe(f)))
  /\ HayMetros =>
       \A j \in 1..Len(disco[ArchivoMetros]) :
         LET r == disco[ArchivoMetros][j]
         IN /\ r.Tipo = "Total_Dia" =>
                 r.Total = ValorLeido(Celda(LaHoja, "F", FILA_TOTAL_METROS))
            /\ r.Tipo = "Total_Fase" =>
                 r.Total = ValorLeido(Celda(LaHoja, "F", FilaTotalDe(r.Fase)))

\* the F09 totals row says 12 while its two equipos add up to 25, and the
\* day total says 30
C8_Testigo ==
  /\ HayMetros
  /\ Celda(LaHoja, "F", 25) = Txt(<<" ", "1", "2", " ">>)
  /\ \E j \in 1..Len(disco[ArchivoMetros]) :
       LET r == disco[ArchivoMetros][j]
       IN r.Tipo = "Total_Fase" /\ r.Fase = "F09" /\ r.Total = 12 * Unidad
  /\ \E j \in 1..Len(disco[ArchivoMetros]) :
       LET r == disco[ArchivoMetros][j]
       IN r.Tipo = "Total_Dia" /\ r.Total = 30 * Unidad
  /\ \A k \in DOMAIN dias :
       /\ Len(dias[k].fases["F09"].equipos) = 2
       /\ dias[k].fases["F09"].equipos[1].total + dias[k].fases["F09"].equipos[2].total
            = 25 * Unidad

\* p is the fraction c as a percentage with one decimal
EsPorcentajeDe(p, c) ==
  /\ p % (Unidad \div 10) = 0
  /\ p - 100 * c <= Unidad \div 20
  /\ 100 * c - p <= Unidad \div 20
  /\ (c = 0) => (p = 0)

PorcentajesDe(r, x) ==
  /\ EsPorcentajeDe(r.Cumplimiento_TA, x.cumplimiento_ta)
  /\ EsPorcentajeDe(r.Cumplimiento_TB, x.cumplimiento_tb)
  /\ EsPorcentajeDe(r.Cumplimiento_Diario, x.cumplimiento_diario)

\* C10: every compliance field of every row of the equipment view is the
\* stored fraction times 100 rounded to one decimal, and 0.0 when the
\* fraction is 0 or the cell was empty.
C10_PorcentajesDeCumplimiento ==
  HayMetros =>
    \A k \in DOMAIN dias :
      LET d == dias[k]
          B == BloqueDe(disco[ArchivoMetros], dias, k)
      IN /\ Len(B) = LargoDia(d)
         /\ \A p \in 1..4 :
              LET f == OrdenEsperado[p]
                  o == Desplazamiento(d, p)
                  n == NEquipos(d, f)
              IN /\ \A j \in 1..n : PorcentajesDe(B[o + j], d.fases[f].equipos[j])
                 /\ PorcentajesDe(B[o + n + 1], d.fases[f])
                 /\ Celda(LaHoja, "H", FilaTotalDe(f)) = None =>
                      B[o + n + 1].Cumplimiento_TA = 0
         /\ PorcentajesDe(B[Len(B)], d)
         /\ Celda(LaHoja, "H", FILA_TOTAL_METROS) = None => B[Len(B)].Cumplimiento_TA = 0

\* 0.873 comes out as 87.3, 0.8736 as 87.4, an empty cell as 0.0
C10_Testigo ==
  /\ HayMetros
  /\ Celda(LaHoja, "H", 17) = Num(8730)
  /\ Celda(LaHoja, "H", 25) = Num(8736)
  /\ Celda(LaHoja, "H", 34) = None
  /\ \E j \in 1..Len(disco[ArchivoMetros]) :
       LET r == disco[ArchivoMetros][j]
       IN r.Tipo = "Equipo" /\ r.Equipo = <<"P", "F", "0", "3">> /\ r.Cumplimiento_TA = 873000
  /\ \E j \in 1..Len(disco[ArchivoMetros]) :
       LET r == disco[ArchivoMetros][j]
       IN r.Tipo = "Total_Fase" /\ r.Fase = "F09" /\ r.Cumplimiento_TA = 874000
  /\ \E j \in 1..Len(disco[ArchivoMetros]) :
       LET r == disco[ArchivoMetros][j]
       IN r.Tipo = "Total_Dia" /\ r.Cumplimiento_TA = 0

\* ---- what the command hands to the exporters
Exportando == llamadas # <<>>

\* C11: a sheet whose trimmed title is in HOJAS_EXCLUIDAS never gives a day
\* record to the collection the command exports, with or without date
\* tokens: no exported day carries the trimmed title of an excluded sheet.
C11_ExcluidasNuncaExportadas ==
  Exportando => \A k \in DOMAIN dias : dias[k].fecha \notin HOJAS_EXCLUIDAS

\* the Total_Dia rows of the equipment view that carry fecha f
TotalesDiaDe(f) ==
  {j \in 1..Len(disco[ArchivoMetros]) :
     disco[ArchivoMetros][j].Tipo = "Total_Dia" /\ disco[ArchivoMetros][j].Fecha = f}

\* C12: in every collection handed to the exporters each key is the fecha of
\* its record, so no sheet is held under two keys and each sheet gives at
\* most one Total_Dia row in the equipment view.
C12_ClaveIgualAFecha ==
  /\ Exportando => \A k \in DOMAIN dias : dias[k].fecha = k
  /\ HayMetros => \A k \in DOMAIN dias : Cardinality(TotalesDiaDe(dias[k].fecha)) <= 1
====
